---- MODULE Spec2Model ----
(***************************************************************************)
(* The sprite-sheet animation engine (class SpriteAnimator) and the host   *)
(* it runs in: the repaint scheduler (requestAnimationFrame), the clock    *)
(* (performance.now), the image element and the file reader.               *)
(*                                                                         *)
(* Conventions                                                             *)
(*  - Time is counted in units of 1/TimeScale ms, so that 1000/fps is a    *)
(*    whole number of units for every fps the model uses (1, 24, 60).      *)
(*    Arithmetic on times is exact; the code's doubles are idealised.      *)
(*  - A null frameWidth/frameHeight is the number 0: the code reads both   *)
(*    the same way (falsy in `!this.frameWidth`, 0 in arithmetic).         *)
(*  - An animationId of 0 is the code's null handle.                       *)
(*  - All numeric inputs are integers.                                     *)
(***************************************************************************)
EXTENDS Integers, Sequences, FiniteSets, TLC

\* ------------------------------------------------------------ constants
\* units of model time per millisecond: 1000 / fps of the constructor and of
\* setFPS is then a whole number of units
TimeScale == 3
\* the measuring window of animate(), in ms
FpsWindowMs == 1000
\* clamp range of setFPS
MinFps == 1
MaxFps == 60
\* fps set by the constructor
DefaultFps == 24
\* frame count the page constructs the animator with
DefaultTotalFrames == 8
\* default grid of the constructor
DefaultFramesPerRow == 4
DefaultFramesPerCol == 2

\* ------------------------------------------------------------ bounds
\* largest totalFrames / columns given to setManualGrid in GridSpec
MaxFrames == 3
MaxCols == 2
\* largest totalFrames / columns given to setManualGrid in Spec
MaxFramesPlay == 2
\* animate() runs counted in one measuring window before the model stops
\* starting new ones
MaxFrameCount == 3
\* loadFromFile calls in one run
MaxUploads == 2

\* ------------------------------------------------------------ inputs
Ms(t) == t * TimeScale

\* instants at which the clock is read: the page's run, and the longer run
\* of the timing scenario (ticks at 16, 1001, 1990 ms, then past 2000 ms)
PageInstants == {Ms(16), Ms(1001)}
Instants == {Ms(16), Ms(1001), Ms(1990), Ms(2001)}

\* values the FPS slider (or any caller) hands to setFPS
FpsInputs == {0, 24, 120}

\* pixel sizes of the sheets that can finish decoding
Sheets == {<<1024, 512>>, <<4, 512>>, <<300, 200>>}
\* the sheet the page ships (images/sprite.png, 8 frames of 256x256)
PageSheets == {<<1024, 512>>}

Max(a, b) == IF a >= b THEN a ELSE b
Min(a, b) == IF a <= b THEN a ELSE b
Floor(a, b) == a \div b
Ceil(a, b) == (a + b - 1) \div b
\* Math.round of the non-negative quotient a/b
Round(a, b) == (2 * a + b) \div (2 * b)

VARIABLES
    animator,   \* the fields of the SpriteAnimator instance
    raf,        \* ids of the callbacks pending with requestAnimationFrame
    canvas,     \* source rectangle last painted, <<>> when cleared
    image,      \* the spriteImage element and its request in flight
    now,        \* performance.now()
    readers,    \* loadFromFile calls whose FileReader is still reading
    promises,   \* settlement of the promise of each loadFromFile call
    last        \* the handler that ran last: name, arguments, outcome

vars == <<animator, raf, canvas, image, now, readers, promises, last>>

\* ------------------------------------------------------------ machine
\* What one synchronous handler reads and writes: the animator's fields (a),
\* the pending repaint callbacks, the canvas, the image element, the clock,
\* whether an exception left the handler (threw), which one (error) and its
\* return value (ret).
Machine ==
    [a |-> animator, raf |-> raf, canvas |-> canvas, img |-> image,
     now |-> now, threw |-> FALSE, error |-> "none", ret |-> "void"]

\* requestAnimationFrame hands out a handle no live callback or stored id has
FreshId(m) ==
    CHOOSE i \in 1..(Cardinality(m.raf) + 2) :
        /\ i \notin (m.raf \cup {m.a.animationId})
        /\ \A j \in 1..(i - 1) : j \in (m.raf \cup {m.a.animationId})

\* ------------------------------------------------------------ render
\* render() with row and column exchanged
frameRect_RowColSwapped(a, i) ==
    IF a.framesPerRow = 0 THEN <<>>
    ELSE LET row == i % a.framesPerRow
             col == i \div a.framesPerRow
             sx == a.offsetX + col * (a.frameWidth + a.spacingX)
             sy == a.offsetY + row * (a.frameHeight + a.spacingY)
         IN <<sx, sy, a.frameWidth, a.frameHeight>>

\* The source rectangle render() computes for frame i; <<>> when the
\* division by a zero framesPerRow makes the coordinates NaN or infinite.
frameRect(a, i) ==
    IF a.framesPerRow = 0 THEN <<>>
    ELSE LET row == i \div a.framesPerRow
             col == i % a.framesPerRow
             sx == a.offsetX + col * (a.frameWidth + a.spacingX)
             sy == a.offsetY + row * (a.frameHeight + a.spacingY)
         IN <<sx, sy, a.frameWidth, a.frameHeight>>

\* render faulting on every image that has no bitmap, loading or broken
render_FaultsUntilLoaded(m) ==
    LET rect == frameRect(m.a, m.a.currentFrame)
        cleared == [m EXCEPT !.canvas = <<>>]
    IN  IF rect = <<>> THEN cleared
        ELSE IF m.img.state # "available"
             THEN [cleared EXCEPT !.threw = TRUE, !.error = "InvalidStateError"]
        ELSE IF rect[3] = 0 \/ rect[4] = 0 THEN cleared
        ELSE [m EXCEPT !.canvas = rect]

\* clearRect, then drawImage: non-finite arguments or a zero-sized source paint
\* nothing, a broken image throws InvalidStateError, an image with no bitmap
\* yet paints nothing.
render(m) ==
    LET rect == frameRect(m.a, m.a.currentFrame)
        cleared == [m EXCEPT !.canvas = <<>>]
    IN  IF rect = <<>> THEN cleared
        ELSE IF m.img.state = "broken"
             THEN [cleared EXCEPT !.threw = TRUE, !.error = "InvalidStateError"]
        ELSE IF m.img.state # "available" \/ rect[3] = 0 \/ rect[4] = 0
             THEN cleared
        ELSE [m EXCEPT !.canvas = rect]

\* ------------------------------------------------------------ grid resolver
\* a candidate scored on the inverted ratio frameH / frameW
Candidate_InvertedRatio(totalFrames, cols, imgWidth, imgHeight) ==
    LET rows == totalFrames \div cols
        inRange == /\ imgWidth > 0
                   /\ 10 * imgHeight * cols > imgWidth * rows
                   /\ imgHeight * cols < 3 * imgWidth * rows
    IN [cols |-> cols, rows |-> rows,
        score |-> cols * 2 + (IF inRange THEN 10 ELSE 0)]

\* one candidate of findBestGridLayout; the aspect ratio
\* (imgWidth/cols)/(imgHeight/rows) is compared exactly
Candidate(totalFrames, cols, imgWidth, imgHeight) ==
    LET rows == totalFrames \div cols
        inRange == /\ imgHeight > 0
                   /\ 10 * imgWidth * rows > imgHeight * cols
                   /\ imgWidth * rows < 3 * imgHeight * cols
    IN [cols |-> cols, rows |-> rows,
        score |-> cols * 2 + (IF inRange THEN 10 ELSE 0)]

\* the layouts array: one entry per divisor, columns ascending
RECURSIVE Layouts(_, _, _, _)
Layouts(totalFrames, cols, imgWidth, imgHeight) ==
    IF cols > totalFrames THEN <<>>
    ELSE (IF totalFrames % cols = 0
          THEN <<Candidate(totalFrames, cols, imgWidth, imgHeight)>>
          ELSE <<>>)
         \o Layouts(totalFrames, cols + 1, imgWidth, imgHeight)

\* an insertion that puts the new entry before its equals: among equal
\* scores the entry added last comes first
RECURSIVE InsertByScore_BeforeEquals(_, _)
InsertByScore_BeforeEquals(sorted, x) ==
    IF sorted = <<>> THEN <<x>>
    ELSE IF Head(sorted).score > x.score
         THEN <<Head(sorted)>> \o InsertByScore_BeforeEquals(Tail(sorted), x)
         ELSE <<x>> \o sorted

\* Array.prototype.sort with (a, b) => b.score - a.score: stable, descending
RECURSIVE InsertByScore(_, _)
InsertByScore(sorted, x) ==
    IF sorted = <<>> THEN <<x>>
    ELSE IF Head(sorted).score >= x.score
         THEN <<Head(sorted)>> \o InsertByScore(Tail(sorted), x)
         ELSE <<x>> \o sorted

RECURSIVE SortByScore(_)
SortByScore(layouts) ==
    IF layouts = <<>> THEN <<>>
    ELSE InsertByScore(SortByScore(SubSeq(layouts, 1, Len(layouts) - 1)),
                       layouts[Len(layouts)])

\* <<layouts[0]>> after the sort; <<>> when layouts[0] is undefined
findBestGridLayout(totalFrames, imgWidth, imgHeight) ==
    LET layouts == SortByScore(Layouts(totalFrames, 1, imgWidth, imgHeight))
    IN IF layouts = <<>> THEN <<>> ELSE <<layouts[1]>>

\* detectSpriteLayout falling back to a single frame when no layout is found
detectSpriteLayout_FallsBack(m) ==
    LET imgWidth == m.img.width
        imgHeight == m.img.height
        found == findBestGridLayout(m.a.totalFrames, imgWidth, imgHeight)
        bestLayout == IF found = <<>> THEN [cols |-> 1, rows |-> 1, score |-> 0]
                      ELSE found[1]
    IN [m EXCEPT !.a.framesPerRow = bestLayout.cols,
                 !.a.framesPerCol = bestLayout.rows,
                 !.a.frameWidth = Floor(imgWidth, bestLayout.cols),
                 !.a.frameHeight = Floor(imgHeight, bestLayout.rows),
                 !.canvas = <<>>]

detectSpriteLayout(m) ==
    LET imgWidth == m.img.width
        imgHeight == m.img.height
        found == findBestGridLayout(m.a.totalFrames, imgWidth, imgHeight)
    IN  IF found = <<>> THEN [m EXCEPT !.threw = TRUE, !.error = "TypeError"]
        ELSE LET bestLayout == found[1]
             IN [m EXCEPT !.a.framesPerRow = bestLayout.cols,
                          !.a.framesPerCol = bestLayout.rows,
                          !.a.frameWidth = Floor(imgWidth, bestLayout.cols),
                          !.a.frameHeight = Floor(imgHeight, bestLayout.rows),
                          !.canvas = <<>>]

\* setManualGrid validating the two counts only
setManualGrid_ChecksCountsOnly(m, args) ==
    IF args[1] < 1 \/ args[2] < 1
    THEN [m EXCEPT !.ret = "false"]
    ELSE LET m1 == [m EXCEPT !.a.totalFrames = args[1],
                             !.a.framesPerRow = args[2],
                             !.a.framesPerCol = Ceil(args[1], args[2]),
                             !.a.frameWidth = args[3],
                             !.a.frameHeight = args[4],
                             !.a.offsetX = args[5],
                             !.a.offsetY = args[6],
                             !.a.spacingX = args[7],
                             !.a.spacingY = args[8],
                             !.a.autoDetect = FALSE,
                             !.canvas = <<>>,
                             !.a.currentFrame = 0]
             m2 == render(m1)
         IN IF m2.threw THEN m2 ELSE [m2 EXCEPT !.ret = "true"]

\* setManualGrid without the reset to the first frame
setManualGrid_KeepsFrame(m, args) ==
    IF args[1] < 1 \/ args[2] < 1 \/ args[3] < 1 \/ args[4] < 1
    THEN [m EXCEPT !.ret = "false"]
    ELSE LET m1 == [m EXCEPT !.a.totalFrames = args[1],
                             !.a.framesPerRow = args[2],
                             !.a.framesPerCol = Ceil(args[1], args[2]),
                             !.a.frameWidth = args[3],
                             !.a.frameHeight = args[4],
                             !.a.offsetX = args[5],
                             !.a.offsetY = args[6],
                             !.a.spacingX = args[7],
                             !.a.spacingY = args[8],
                             !.a.autoDetect = FALSE,
                             !.canvas = <<>>]
             m2 == render(m1)
         IN IF m2.threw THEN m2 ELSE [m2 EXCEPT !.ret = "true"]

\* args = <<totalFrames, cols, frameWidth, frameHeight,
\*          offsetX, offsetY, spacingX, spacingY>>
setManualGrid(m, args) ==
    IF args[1] < 1 \/ args[2] < 1 \/ args[3] < 1 \/ args[4] < 1
    THEN [m EXCEPT !.ret = "false"]
    ELSE LET m1 == [m EXCEPT !.a.totalFrames = args[1],
                             !.a.framesPerRow = args[2],
                             !.a.framesPerCol = Ceil(args[1], args[2]),
                             !.a.frameWidth = args[3],
                             !.a.frameHeight = args[4],
                             !.a.offsetX = args[5],
                             !.a.offsetY = args[6],
                             !.a.spacingX = args[7],
                             !.a.spacingY = args[8],
                             !.a.autoDetect = FALSE,
                             !.canvas = <<>>,
                             !.a.currentFrame = 0]
             m2 == render(m1)
         IN IF m2.threw THEN m2 ELSE [m2 EXCEPT !.ret = "true"]

triggerAutoDetect(m) ==
    LET m1 == detectSpriteLayout([m EXCEPT !.a.autoDetect = TRUE])
    IN IF m1.threw THEN m1 ELSE render(m1)

\* ------------------------------------------------------------ playback
\* setFPS restarting the interval at the current time
setFPS_RestartsInterval(m, fps) ==
    LET clamped == Max(MinFps, Min(MaxFps, fps))
    IN [m EXCEPT !.a.fps = clamped,
                 !.a.frameInterval = Ms(1000) \div clamped,
                 !.a.lastFrameTime = m.now]

\* setFPS without the upper clamp
setFPS_ClampsBelowOnly(m, fps) ==
    LET clamped == Max(MinFps, fps)
    IN [m EXCEPT !.a.fps = clamped,
                 !.a.frameInterval = Ms(1000) \div clamped]

setFPS(m, fps) ==
    LET clamped == Max(MinFps, Min(MaxFps, fps))
    IN [m EXCEPT !.a.fps = clamped,
                 !.a.frameInterval = Ms(1000) \div clamped]

\* animate catching up every whole interval that has elapsed
animate_CatchUp(m) ==
    IF ~m.a.isPlaying THEN m
    ELSE
    LET currentTime == m.now
        deltaTime == currentTime - m.a.lastFrameTime
        due == deltaTime >= m.a.frameInterval
        m1 == IF due
              THEN render([m EXCEPT !.a.currentFrame =
                     (@ + (deltaTime \div m.a.frameInterval)) % m.a.totalFrames])
              ELSE m
    IN  IF m1.threw THEN m1
        ELSE
        LET m2 == IF due
                  THEN [m1 EXCEPT !.a.lastFrameTime =
                            currentTime - (deltaTime % m.a.frameInterval)]
                  ELSE m1
            m3 == [m2 EXCEPT !.a.frameCount = @ + 1]
            window == currentTime - m3.a.fpsLastTime
            m4 == IF window >= Ms(FpsWindowMs)
                  THEN [m3 EXCEPT !.a.actualFps =
                                      Round(m3.a.frameCount * Ms(1000), window),
                                  !.a.frameCount = 0,
                                  !.a.fpsLastTime = currentTime]
                  ELSE m3
            id == FreshId(m4)
        IN [m4 EXCEPT !.a.animationId = id, !.raf = @ \cup {id}]

animate(m) ==
    IF ~m.a.isPlaying THEN m
    ELSE
    LET currentTime == m.now
        deltaTime == currentTime - m.a.lastFrameTime
        due == deltaTime >= m.a.frameInterval
        m1 == IF due
              THEN render([m EXCEPT !.a.currentFrame =
                                        (@ + 1) % m.a.totalFrames])
              ELSE m
    IN  IF m1.threw THEN m1
        ELSE
        LET m2 == IF due
                  THEN [m1 EXCEPT !.a.lastFrameTime =
                            currentTime - (deltaTime % m.a.frameInterval)]
                  ELSE m1
            m3 == [m2 EXCEPT !.a.frameCount = @ + 1]
            window == currentTime - m3.a.fpsLastTime
            m4 == IF window >= Ms(FpsWindowMs)
                  THEN [m3 EXCEPT !.a.actualFps =
                                      Round(m3.a.frameCount * Ms(1000), window),
                                  !.a.frameCount = 0,
                                  !.a.fpsLastTime = currentTime]
                  ELSE m3
            id == FreshId(m4)
        IN [m4 EXCEPT !.a.animationId = id, !.raf = @ \cup {id}]

\* play without the timestamp: the interval runs from the last advance
play_KeepsTimestamp(m) ==
    IF ~m.a.isPlaying
    THEN animate([m EXCEPT !.a.isPlaying = TRUE])
    ELSE m

play(m) ==
    IF ~m.a.isPlaying
    THEN animate([m EXCEPT !.a.isPlaying = TRUE, !.a.lastFrameTime = m.now])
    ELSE m

\* pause with an inverted guard: it returns at once while playing
pause_InvertedGuard(m) ==
    IF m.a.isPlaying THEN m
    ELSE IF m.a.animationId # 0
         THEN [m EXCEPT !.raf = @ \ {m.a.animationId}, !.a.animationId = 0]
         ELSE m

\* pause that clears the flag but leaves the pending callback alone
pause_KeepsCallback(m) ==
    [m EXCEPT !.a.isPlaying = FALSE]

\* pause that flips the flag instead of clearing it
pause_Toggles(m) ==
    LET m1 == [m EXCEPT !.a.isPlaying = ~@]
    IN IF m1.a.animationId # 0
       THEN [m1 EXCEPT !.raf = @ \ {m1.a.animationId}, !.a.animationId = 0]
       ELSE m1

pause(m) ==
    LET m1 == [m EXCEPT !.a.isPlaying = FALSE]
    IN IF m1.a.animationId # 0
       THEN [m1 EXCEPT !.raf = @ \ {m1.a.animationId}, !.a.animationId = 0]
       ELSE m1

nextFrame(m) ==
    render([m EXCEPT !.a.currentFrame = (@ + 1) % m.a.totalFrames])

\* prevFrame without the + totalFrames: the remainder of -1 is -1
prevFrame_NoWrap(m) ==
    render([m EXCEPT !.a.currentFrame = IF @ = 0 THEN -1 ELSE @ - 1])

prevFrame(m) ==
    render([m EXCEPT !.a.currentFrame =
                         (@ - 1 + m.a.totalFrames) % m.a.totalFrames])

\* ------------------------------------------------------------ loading
\* spriteImage.onload as installed by loadSprite()
loadSpriteOnload(m) ==
    IF m.a.frameWidth = 0 \/ m.a.frameHeight = 0
    THEN LET m1 == detectSpriteLayout(m)
         IN IF m1.threw THEN m1 ELSE render(m1)
    ELSE render([m EXCEPT
             !.a.framesPerRow = Floor(m.img.width, m.a.frameWidth),
             !.a.framesPerCol = Floor(m.img.height, m.a.frameHeight)])

\* spriteImage.onload as installed by loadFromFile(), up to resolve()
loadFromFileOnload(m) ==
    LET m1 == IF m.a.autoDetect THEN detectSpriteLayout(m) ELSE m
    IN IF m1.threw THEN m1 ELSE render(m1)

\* ------------------------------------------------------------ actions
Outcome(m) == IF m.threw THEN "throw" ELSE m.ret

\* The record of the handler that just ran. stopped: pause() has returned and
\* play() has not been called since.
Ran(op, arg, ret) ==
    [op |-> op, arg |-> arg, ret |-> ret, error |-> "none",
     stopped |-> IF op = "pause" THEN TRUE
                 ELSE IF op = "play" THEN FALSE
                 ELSE last.stopped]

\* the handler's effects become the next state
Commit(m, op, arg) ==
    /\ animator' = m.a
    /\ raf' = m.raf
    /\ canvas' = m.canvas
    /\ image' = m.img
    /\ now' = m.now
    /\ last' = [Ran(op, arg, Outcome(m)) EXCEPT !.error = m.error]

Play ==
    /\ animator.frameCount < MaxFrameCount
    /\ Commit(play(Machine), "play", <<>>)
    /\ UNCHANGED <<readers, promises>>

Pause ==
    /\ Commit(pause(Machine), "pause", <<>>)
    /\ UNCHANGED <<readers, promises>>

NextFrame ==
    /\ Commit(nextFrame(Machine), "nextFrame", <<>>)
    /\ UNCHANGED <<readers, promises>>

PrevFrame ==
    /\ Commit(prevFrame(Machine), "prevFrame", <<>>)
    /\ UNCHANGED <<readers, promises>>

SetFPS(fps) ==
    /\ Commit(setFPS(Machine, fps), "setFPS", <<fps>>)
    /\ UNCHANGED <<readers, promises>>

\* the host runs a pending repaint callback at a later instant t
Tick(t) ==
    /\ t > now
    /\ \E id \in raf :
        Commit(animate([Machine EXCEPT !.raf = @ \ {id}, !.now = t]),
               "tick", <<t>>)
    /\ UNCHANGED <<readers, promises>>

\* time passes with no handler running
Clock(t) ==
    /\ t > now
    /\ now' = t
    /\ last' = Ran("clock", <<t>>, "void")
    /\ UNCHANGED <<animator, raf, canvas, image, readers, promises>>

SetManualGrid(args) ==
    /\ Commit(setManualGrid(Machine, args), "setManualGrid", args)
    /\ UNCHANGED <<readers, promises>>

TriggerAutoDetect ==
    /\ Commit(triggerAutoDetect(Machine), "triggerAutoDetect", <<>>)
    /\ UNCHANGED <<readers, promises>>

\* the request in flight decodes to a sheet of the given size; onload runs
ImageLoaded(sheet) ==
    /\ image.loading
    /\ LET m0 == [Machine EXCEPT !.img.state = "available",
                                 !.img.width = sheet[1],
                                 !.img.height = sheet[2],
                                 !.img.loading = FALSE]
           k == image.handler
           m1 == IF k = 0 THEN loadSpriteOnload(m0) ELSE loadFromFileOnload(m0)
       IN /\ Commit(m1, "imageLoad", sheet)
          /\ promises' = IF k # 0 /\ ~m1.threw /\ promises[k] = "pending"
                         THEN [promises EXCEPT ![k] = "resolved"]
                         ELSE promises
    /\ UNCHANGED readers

\* the request in flight fails; onerror runs
ImageError ==
    /\ image.loading
    /\ LET m0 == [Machine EXCEPT !.img.state = "broken",
                                 !.img.width = 0,
                                 !.img.height = 0,
                                 !.img.loading = FALSE]
           k == image.handler
       IN /\ Commit(m0, "imageError", <<>>)
          /\ promises' = IF k # 0 /\ promises[k] = "pending"
                         THEN [promises EXCEPT ![k] = "rejected"]
                         ELSE promises
    /\ UNCHANGED readers

\* loadFromFile(file): isImage is file.type.startsWith('image/')
LoadFromFile(isImage) ==
    /\ \E k \in 1..MaxUploads :
        /\ promises[k] = "none"
        /\ \A j \in 1..(k - 1) : promises[j] # "none"
        /\ promises' = [promises EXCEPT
                            ![k] = IF isImage THEN "pending" ELSE "rejected"]
        /\ readers' = IF isImage THEN readers \cup {k} ELSE readers
        /\ last' = Ran("loadFromFile", <<k>>, "promise")
    /\ UNCHANGED <<animator, raf, canvas, image, now>>

\* reader.onload of call k: installs its handlers and assigns src, which
\* replaces the request in flight; a decoded bitmap stays until the new
\* request ends
ReaderLoaded(k) ==
    /\ k \in readers
    /\ readers' = readers \ {k}
    /\ image' = [image EXCEPT !.handler = k,
                              !.loading = TRUE,
                              !.state = IF @ = "broken" THEN "unavailable" ELSE @]
    /\ last' = Ran("readerLoad", <<k>>, "void")
    /\ UNCHANGED <<animator, raf, canvas, now, promises>>

\* reader.onerror of call k
ReaderError(k) ==
    /\ k \in readers
    /\ readers' = readers \ {k}
    /\ promises' = [promises EXCEPT ![k] = "rejected"]
    /\ last' = Ran("readerError", <<k>>, "void")
    /\ UNCHANGED <<animator, raf, canvas, image, now>>

\* ------------------------------------------------------------ construction
\* new SpriteAnimator(canvasId, path, totalFrames): the fields the
\* constructor sets, with loadSprite() started
constructor(totalFrames) ==
    [totalFrames |-> totalFrames,
     frameWidth |-> 0,
     frameHeight |-> 0,
     framesPerRow |-> DefaultFramesPerRow,
     framesPerCol |-> DefaultFramesPerCol,
     currentFrame |-> 0,
     isPlaying |-> FALSE,
     fps |-> DefaultFps,
     frameInterval |-> Ms(1000) \div DefaultFps,
     lastFrameTime |-> 0,
     actualFps |-> 0,
     frameCount |-> 0,
     fpsLastTime |-> 0,
     animationId |-> 0,
     offsetX |-> 0,
     offsetY |-> 0,
     spacingX |-> 0,
     spacingY |-> 0,
     autoDetect |-> TRUE]

\* loadSprite(): handlers installed, src assigned, nothing decoded yet
loadSprite ==
    [state |-> "unavailable", width |-> 0, height |-> 0,
     loading |-> TRUE, handler |-> 0]

InitWith(totalFrames) ==
    /\ animator = constructor(totalFrames)
    /\ raf = {}
    /\ canvas = <<>>
    /\ image = loadSprite
    /\ now = 0
    /\ readers = {}
    /\ promises = [k \in 1..MaxUploads |-> "none"]
    /\ last = [op |-> "new", arg |-> <<totalFrames>>, ret |-> "void",
               error |-> "none", stopped |-> FALSE]

\* ------------------------------------------------------------ the page
\* The page constructs the animator with 8 frames; every control may be used
\* at any time.
\* setManualGrid arguments of the page's run: a valid one-column grid of each
\* frame count, and the largest of them with one of the four validated
\* fields set to 0
PlayArgs ==
    {<<tf, 1, 2, 2, 0, 0, 0, 0>> : tf \in 1..MaxFramesPlay}
    \cup {[<<MaxFramesPlay, 1, 2, 2, 0, 0, 0, 0>> EXCEPT ![i] = 0] : i \in 1..4}

Init == InitWith(DefaultTotalFrames)

Next ==
    \/ Play
    \/ Pause
    \/ NextFrame
    \/ PrevFrame
    \/ \E fps \in FpsInputs : SetFPS(fps)
    \/ \E t \in PageInstants : Tick(t)
    \/ \E t \in PageInstants : Clock(t)
    \/ \E args \in PlayArgs : SetManualGrid(args)
    \/ TriggerAutoDetect
    \/ \E sheet \in PageSheets : ImageLoaded(sheet)
    \/ ImageError

Spec == Init /\ [][Next]_vars

\* ------------------------------------------------------------ timing run
\* Playback alone over the longer run of instants: the layout stays the one
\* the constructor and the sheet's load give.
TimingNext ==
    \/ Play
    \/ Pause
    \/ \E fps \in FpsInputs : SetFPS(fps)
    \/ \E t \in Instants : Tick(t)
    \/ \E t \in Instants : Clock(t)
    \/ \E sheet \in PageSheets : ImageLoaded(sheet)
    \/ ImageError

TimingSpec == Init /\ [][TimingNext]_vars

\* ------------------------------------------------------------ grid run
\* The grid resolver: an animator constructed with any frame count, any
\* sheet, manual grids over a product of field values, frame stepping.
FrameSizes == {10, 100}
Offsets == {0, 5}
Spacings == {-1, 0, 2}

\* the page's form leaves offsets and spacings at 0 unless edited: at most
\* one of the four differs from 0 in one call
Placements ==
    {p \in Offsets \X Offsets \X Spacings \X Spacings :
        Cardinality({i \in 1..4 : p[i] # 0}) <= 1}

\* the calls the specification's scenarios name
ScenarioArgs ==
    {<<6, 3, 100, 100, 0, 0, 0, 0>>,
     <<5, 2, 10, 10, 0, 0, 0, 0>>,
     <<0, 1, 10, 10, 0, 0, 0, 0>>}

GridArgs ==
    {<<tf, c, w, h, p[1], p[2], p[3], p[4]>> :
        tf \in 1..MaxFrames, c \in 1..MaxCols,
        w \in FrameSizes, h \in FrameSizes, p \in Placements}
    \cup ScenarioArgs

GridInit == \E totalFrames \in 1..DefaultTotalFrames : InitWith(totalFrames)

GridNext ==
    \/ NextFrame
    \/ PrevFrame
    \/ \E args \in GridArgs : SetManualGrid(args)
    \/ TriggerAutoDetect
    \/ \E sheet \in Sheets : ImageLoaded(sheet)
    \/ ImageError

GridSpec == GridInit /\ [][GridNext]_vars

\* ------------------------------------------------------------ upload run
\* Sheets uploaded through loadFromFile while the grid is edited or detected.
UploadNext ==
    \/ NextFrame
    \/ \E args \in PlayArgs : SetManualGrid(args)
    \/ TriggerAutoDetect
    \/ \E sheet \in Sheets : ImageLoaded(sheet)
    \/ ImageError
    \/ \E isImage \in BOOLEAN : LoadFromFile(isImage)
    \/ \E k \in 1..MaxUploads : ReaderLoaded(k)
    \/ \E k \in 1..MaxUploads : ReaderError(k)

UploadSpec == Init /\ [][UploadNext]_vars

\* the FileReader of call k ends, in a load or in an error
ReaderDone(k) == ReaderLoaded(k) \/ ReaderError(k)

\* Uploads alone, with the frame stepped between them. The host ends every
\* read that was started and every image request that stays in flight: no
\* request is in flight for ever. ImageError is enabled exactly while a
\* request is in flight and a load ends the request as well, so weak fairness
\* of ImageError says just that, without preferring the error to the load.
UploadFairNext ==
    \/ NextFrame
    \/ \E sheet \in Sheets : ImageLoaded(sheet)
    \/ ImageError
    \/ \E isImage \in BOOLEAN : LoadFromFile(isImage)
    \/ \E k \in 1..MaxUploads : ReaderLoaded(k)
    \/ \E k \in 1..MaxUploads : ReaderError(k)

UploadFairSpec ==
    /\ Init /\ [][UploadFairNext]_vars
    /\ WF_vars(ImageError)
    /\ \A k \in 1..MaxUploads : WF_vars(ReaderDone(k))

\* ------------------------------------------------------------ detection run
\* The layout detector alone: an animator constructed with any frame count,
\* also none or a negative one, sheets that include one on which two
\* candidates of 6 frames reach the same best score, and manual grids between
\* detections.
DetectSheets == Sheets \cup {<<10, 300>>}

DetectInit == \E totalFrames \in -1..DefaultTotalFrames : InitWith(totalFrames)

DetectNext ==
    \/ \E args \in PlayArgs : SetManualGrid(args)
    \/ TriggerAutoDetect
    \/ \E sheet \in DetectSheets : ImageLoaded(sheet)
    \/ ImageError

DetectSpec == DetectInit /\ [][DetectNext]_vars

\* ============================================================ claims
\* C1: in every reachable state currentFrame is an integer with
\* 0 <= currentFrame < totalFrames, also after the layout was changed.
C1_FrameIndexInRange ==
    /\ animator.currentFrame \in Int
    /\ 0 <= animator.currentFrame
    /\ animator.currentFrame < animator.totalFrames

\* a tick advanced the index to the last frame of a manual grid that is
\* shorter than the constructor's
C1_Witness ==
    /\ last.op = "tick"
    /\ animator.totalFrames = MaxFramesPlay
    /\ animator.totalFrames < DefaultTotalFrames
    /\ animator.currentFrame = animator.totalFrames - 1

\* C2: between the return of pause() and the next call of play() the frame
\* index changes only through nextFrame, prevFrame or a layout change, never
\* through a repaint callback.
C2_NoAdvanceWhileStopped ==
    [][(last.stopped /\ last'.stopped
        /\ animator'.currentFrame # animator.currentFrame)
       => last'.op \in {"nextFrame", "prevFrame", "setManualGrid"}]_vars

\* pause() has just returned in a run that had advanced frames by ticks,
\* and it left no callback pending
C2_Witness ==
    /\ last.op = "pause"
    /\ last.stopped
    /\ animator.lastFrameTime > 0
    /\ animator.animationId = 0
    /\ raf = {}

\* C3: one repaint callback while playing moves the index by exactly one
\* step modulo totalFrames when now - lastFrameTime >= frameInterval, and by
\* none otherwise, however many whole intervals have elapsed.
C3_TickAdvancesAtMostOne ==
    [][(last'.op = "tick" /\ animator.isPlaying)
       => animator'.currentFrame =
            IF now' - animator.lastFrameTime >= animator.frameInterval
            THEN (animator.currentFrame + 1) % animator.totalFrames
            ELSE animator.currentFrame]_vars

\* at 60 fps the tick at 1001 ms comes at least 985 ms (59 intervals) after
\* the previous advance, and the index is 1
C3_Witness ==
    /\ last.op = "tick"
    /\ last.ret = "void"
    /\ now = Ms(1001)
    /\ animator.fps = MaxFps
    /\ animator.totalFrames = DefaultTotalFrames
    /\ animator.lastFrameTime > now - animator.frameInterval
    /\ animator.currentFrame = 1

\* C4: a tick that advances the frame sets lastFrameTime to
\* now - ((now - previous lastFrameTime) mod frameInterval), not to now.
C4_PhasePreserved ==
    [][(/\ last'.op = "tick"
        /\ animator.isPlaying
        /\ now' - animator.lastFrameTime >= animator.frameInterval)
       => animator'.lastFrameTime =
            now' - ((now' - animator.lastFrameTime) % animator.frameInterval)]_vars

\* the same, for the ticks that return without an exception
C4_PhasePreservedUnlessThrown ==
    [][(/\ last'.op = "tick"
        /\ last'.ret # "throw"
        /\ animator.isPlaying
        /\ now' - animator.lastFrameTime >= animator.frameInterval)
       => animator'.lastFrameTime =
            now' - ((now' - animator.lastFrameTime) % animator.frameInterval)]_vars

\* the layout has just been detected on the 1024x512 sheet for 8 frames
DetectedOnPageSheet ==
    /\ last.op = "triggerAutoDetect"
    /\ last.ret = "void"
    /\ image.state = "available"
    /\ image.width = 1024
    /\ image.height = 512
    /\ animator.totalFrames = 8

C6_DetectedFramesNotEmpty ==
    (/\ last.op = "triggerAutoDetect"
     /\ last.ret = "void"
     /\ image.state = "available"
     /\ animator.totalFrames >= 1)
    => /\ animator.framesPerRow * animator.framesPerCol = animator.totalFrames
       /\ animator.frameWidth = Floor(image.width, animator.framesPerRow)
       /\ animator.frameWidth >= 1
       /\ animator.frameHeight = Floor(image.height, animator.framesPerCol)
       /\ animator.frameHeight >= 1

\* C7: setManualGrid with totalFrames, cols, frameWidth or frameHeight below
\* 1 returns false and changes no field of the animator, nor the canvas, the
\* image or the pending callbacks.
C7_InvalidGridRejected ==
    [][(/\ last'.op = "setManualGrid"
        /\ \E i \in 1..4 : last'.arg[i] < 1)
       => /\ last'.ret = "false"
          /\ UNCHANGED <<animator, raf, canvas, image, now>>]_vars

\* a call with only frameWidth below 1 was rejected while a manual grid was
\* active, the animation playing and the index off the first frame
C7_Witness ==
    /\ last.op = "setManualGrid"
    /\ last.ret = "false"
    /\ last.arg[1] >= 1 /\ last.arg[2] >= 1 /\ last.arg[3] < 1
    /\ ~animator.autoDetect
    /\ animator.isPlaying
    /\ animator.currentFrame > 0

\* the rectangles of a manual grid would leave a sheet of the given size
OutOfBounds(args, width, height) ==
    \/ args[5] + args[2] * (args[3] + args[7]) > width
    \/ args[6] + Ceil(args[1], args[2]) * (args[4] + args[8]) > height

\* C8: a manual grid whose rectangles would exceed the loaded sheet is
\* rejected.
C8_OutOfBoundsRejected ==
    (/\ last.op = "setManualGrid"
     /\ image.state = "available"
     /\ \A i \in 1..4 : last.arg[i] >= 1
     /\ OutOfBounds(last.arg, image.width, image.height))
    => last.ret = "false"

\* the rectangle the claims give for frame i of a manual grid
ClaimedRect(args, i) ==
    <<args[5] + (i % args[2]) * (args[3] + args[7]),
      args[6] + (i \div args[2]) * (args[4] + args[8]),
      args[3], args[4]>>

\* C9: after a successful setManualGrid the row count is
\* ceil(totalFrames / cols) and frame i has the source rectangle
\* x = offsetX + (i mod cols) * (frameWidth + spacingX),
\* y = offsetY + (i div cols) * (frameHeight + spacingY), frameWidth wide and
\* frameHeight high; what the canvas shows is the rectangle of the current
\* frame; (6,3,100,100,0,0,0,0) gives 2 rows and frame 5 at {200,100,100,100};
\* (5,2,10,10,0,0,0,0) gives 3 rows.
C9_ManualGridRects ==
    /\ (last.op = "setManualGrid" /\ last.ret = "true") =>
        /\ animator.framesPerCol * last.arg[2] >= last.arg[1]
        /\ (animator.framesPerCol - 1) * last.arg[2] < last.arg[1]
        /\ \A i \in 0..(last.arg[1] - 1) :
              frameRect(animator, i) = ClaimedRect(last.arg, i)
        /\ frameRect(animator, 0) =
              <<last.arg[5], last.arg[6], last.arg[3], last.arg[4]>>
        /\ last.arg = <<6, 3, 100, 100, 0, 0, 0, 0>> =>
              /\ animator.framesPerCol = 2
              /\ frameRect(animator, 5) = <<200, 100, 100, 100>>
        /\ last.arg = <<5, 2, 10, 10, 0, 0, 0, 0>> =>
              animator.framesPerCol = 3
    /\ canvas # <<>> => canvas = frameRect(animator, animator.currentFrame)

\* frame 5 of the manual grid (6,3,100,100,0,0,0,0) is on the canvas
C9_Witness ==
    /\ ~animator.autoDetect
    /\ animator.totalFrames = 6
    /\ animator.framesPerRow = 3
    /\ animator.framesPerCol = 2
    /\ animator.currentFrame = 5
    /\ canvas = <<200, 100, 100, 100>>

\* the interiors of two rectangles overlap
Overlap(r, q) ==
    /\ r[3] > 0 /\ r[4] > 0 /\ q[3] > 0 /\ q[4] > 0
    /\ r[1] < q[1] + q[3] /\ q[1] < r[1] + r[3]
    /\ r[2] < q[2] + q[4] /\ q[2] < r[2] + r[4]

\* distinct frames in range have distinct rectangles with disjoint interiors
RectsDisjoint ==
    \A i, j \in 0..(animator.totalFrames - 1) :
        i # j => /\ frameRect(animator, i) # frameRect(animator, j)
                 /\ ~Overlap(frameRect(animator, i), frameRect(animator, j))

\* C10: every layout detected on a loaded sheet or set by a successful
\* setManualGrid, with spacings >= 0, gives distinct frames distinct
\* rectangles with disjoint interiors.
C10_RectsDisjoint ==
    (/\ animator.spacingX >= 0
     /\ animator.spacingY >= 0
     /\ \/ last.op = "setManualGrid" /\ last.ret = "true"
        \/ /\ last.op = "triggerAutoDetect"
           /\ last.ret = "void"
           /\ image.state = "available")
    => RectsDisjoint

\* the same for the layouts set by a successful setManualGrid alone
C10_ManualRectsDisjoint ==
    (/\ animator.spacingX >= 0
     /\ animator.spacingY >= 0
     /\ last.op = "setManualGrid"
     /\ last.ret = "true")
    => RectsDisjoint

\* the value setFPS stores for a request
ClampedFps(fps) == IF fps < 1 THEN 1 ELSE IF fps > 60 THEN 60 ELSE fps

\* C11: setFPS(value) stores min(60, max(1, value)) as fps and 1000 / fps as
\* frameInterval; in every reachable state 1 <= fps <= 60 and
\* frameInterval = 1000 / fps; setFPS(120) gives 60 and setFPS(0) gives 1.
C11_FpsClamped ==
    /\ [](/\ 1 <= animator.fps /\ animator.fps <= 60
          /\ animator.frameInterval * animator.fps = Ms(1000))
    /\ [][last'.op = "setFPS" =>
            /\ animator'.fps = ClampedFps(last'.arg[1])
            /\ animator'.frameInterval * ClampedFps(last'.arg[1]) = Ms(1000)
            /\ (last'.arg[1] = 120 => animator'.fps = 60)
            /\ (last'.arg[1] = 0 => animator'.fps = 1)]_vars

\* setFPS(120) has just stored 60 fps, an interval of 1000/60 ms
C11_Witness ==
    /\ last.op = "setFPS"
    /\ last.arg = <<120>>
    /\ animator.fps = 60
    /\ animator.frameInterval * 60 = Ms(1000)

\* C12: nextFrame at the last index gives 0 and prevFrame at 0 gives the last
\* index; nextFrame then prevFrame, and prevFrame then nextFrame, return to
\* the index they started from; neither changes isPlaying, fps or
\* lastFrameTime.
C12_StepsWrapAndInvert ==
    /\ [](/\ prevFrame(nextFrame(Machine)).a.currentFrame
                = animator.currentFrame
          /\ nextFrame(prevFrame(Machine)).a.currentFrame
                = animator.currentFrame)
    /\ [][(/\ last'.op = "nextFrame" =>
                animator'.currentFrame =
                    IF animator.currentFrame = animator.totalFrames - 1
                    THEN 0 ELSE animator.currentFrame + 1)
          /\ (last'.op = "prevFrame" =>
                animator'.currentFrame =
                    IF animator.currentFrame = 0
                    THEN animator.totalFrames - 1
                    ELSE animator.currentFrame - 1)
          /\ (last'.op \in {"nextFrame", "prevFrame"} =>
                /\ animator'.isPlaying = animator.isPlaying
                /\ animator'.fps = animator.fps
                /\ animator'.lastFrameTime = animator.lastFrameTime)]_vars

\* prevFrame has wrapped from 0 to the last of 8 frames during playback
C12_Witness ==
    /\ last.op = "prevFrame"
    /\ animator.totalFrames = DefaultTotalFrames
    /\ animator.currentFrame = animator.totalFrames - 1
    /\ animator.isPlaying
    /\ animator.lastFrameTime > 0

\* C13: from any reachable state pause() called twice in a row leaves the
\* playback state (index, isPlaying, fps, lastFrameTime, pending callback and
\* its handle, measurement counters) as pause() called once leaves it.
C13_PauseIdempotent ==
    /\ [](pause(pause(Machine)) = pause(Machine))
    /\ [][(last.op = "pause" /\ last'.op = "pause")
           => UNCHANGED <<animator, raf, canvas, image, now>>]_vars

\* pause() has stopped a run with frames advanced and measured, and a second
\* call finds nothing to change
C13_Witness ==
    /\ last.op = "pause"
    /\ animator.currentFrame > 0
    /\ animator.lastFrameTime > 0
    /\ animator.actualFps > 0
    /\ pause(Machine) = Machine

\* C14: play() while paused sets isPlaying and records the current time as
\* lastFrameTime without advancing the frame; while playing lastFrameTime never
\* goes back and a tick advances only when a whole frameInterval has passed
\* since it, so the first advance comes no earlier than one frameInterval
\* after play(); play() while playing changes nothing.
C14_PlayStartsInterval ==
    [][/\ (last'.op = "play" /\ ~animator.isPlaying) =>
            /\ animator'.isPlaying
            /\ now' = now
            /\ animator'.lastFrameTime = now
            /\ animator'.currentFrame = animator.currentFrame
       /\ (last'.op = "play" /\ animator.isPlaying) =>
            UNCHANGED <<animator, raf, canvas, image, now>>
       /\ (animator.isPlaying /\ animator'.isPlaying) =>
            animator'.lastFrameTime >= animator.lastFrameTime
       /\ (last'.op = "tick" /\ animator'.currentFrame # animator.currentFrame) =>
            now' >= animator.lastFrameTime + animator.frameInterval]_vars

\* play() has resumed at 1001 ms a run that was paused after an advance
C14_Witness ==
    /\ last.op = "play"
    /\ animator.isPlaying
    /\ now = Ms(1001)
    /\ animator.lastFrameTime = now
    /\ animator.currentFrame > 0
    /\ animator.animationId \in raf

WithSheetLoaded(m) ==
    [m EXCEPT !.img.state = "available", !.img.width = 1024,
              !.img.height = 512]

\* C16: while the sheet is still loading, setFPS, play, pause, nextFrame,
\* prevFrame and the repaint callback return without an exception, leave the
\* animator's fields as the same call leaves them with the sheet loaded, and
\* paint nothing.
C16_CommandsBeforeLoad ==
    [][(/\ image.state = "unavailable"
        /\ image.loading
        /\ last'.op \in {"setFPS", "play", "pause", "nextFrame", "prevFrame",
                          "tick"})
       => /\ last'.ret # "throw"
          /\ canvas' = <<>>
          /\ animator' =
               (CASE last'.op = "setFPS" ->
                        setFPS(WithSheetLoaded(Machine), last'.arg[1])
                  [] last'.op = "play" -> play(WithSheetLoaded(Machine))
                  [] last'.op = "pause" -> pause(WithSheetLoaded(Machine))
                  [] last'.op = "nextFrame" ->
                        nextFrame(WithSheetLoaded(Machine))
                  [] last'.op = "prevFrame" ->
                        prevFrame(WithSheetLoaded(Machine))
                  [] last'.op = "tick" ->
                        animate([WithSheetLoaded(Machine) EXCEPT
                                    !.now = last'.arg[1],
                                    !.raf = @ \ {animator.animationId}])).a]_vars

\* a repaint callback has advanced the frame while the sheet was loading and
\* nothing is painted
C16_Witness ==
    /\ last.op = "tick"
    /\ last.ret = "void"
    /\ image.state = "unavailable"
    /\ image.loading
    /\ animator.isPlaying
    /\ animator.currentFrame > 0
    /\ animator.lastFrameTime > 0
    /\ canvas = <<>>

\* the score the claim gives a candidate of c columns: 2 * c, and 10 more
\* when 0.1 < (width / c) / (height / rows) < 3
ClaimedScore(totalFrames, c, width, height) ==
    LET rows == totalFrames \div c
        ratioInRange == /\ height > 0
                        /\ width * rows * 10 > height * c
                        /\ width * rows < height * c * 3
    IN 2 * c + (IF ratioInRange THEN 10 ELSE 0)

\* C17: the layout detected on a loaded sheet, by triggerAutoDetect or when
\* the sheet's load completes in auto-detect mode, is a pair (cols, rows) with
\* cols * rows = totalFrames whose score no other such pair exceeds, and of
\* the pairs with that score it is the one with the fewest columns.
C17_DetectsBestScore ==
    (/\ last.op \in {"triggerAutoDetect", "imageLoad"}
     /\ animator.autoDetect
     /\ last.ret = "void"
     /\ image.state = "available"
     /\ animator.totalFrames >= 1)
    => /\ animator.framesPerRow \in 1..animator.totalFrames
       /\ animator.framesPerRow * animator.framesPerCol = animator.totalFrames
       /\ \A c \in 1..animator.totalFrames :
            animator.totalFrames % c = 0 =>
              LET best == ClaimedScore(animator.totalFrames,
                                       animator.framesPerRow,
                                       image.width, image.height)
                  other == ClaimedScore(animator.totalFrames, c,
                                        image.width, image.height)
              IN /\ other <= best
                 /\ other = best => c >= animator.framesPerRow

\* 6 frames on the 10x300 sheet: one column (ratio 0.2) and six columns both
\* score 12, and one column is detected
C17_Witness ==
    /\ last.op = "triggerAutoDetect"
    /\ last.ret = "void"
    /\ animator.totalFrames = 6
    /\ image.width = 10
    /\ image.height = 300
    /\ ClaimedScore(6, 1, 10, 300) = ClaimedScore(6, 6, 10, 300)
    /\ animator.framesPerRow = 1
    /\ animator.framesPerCol = 6

\* C18: setFPS changes fps and frameInterval and nothing else, not the index,
\* isPlaying, lastFrameTime, the pending callback or the layout; the tick that
\* follows it advances exactly when the time since lastFrameTime has reached
\* the new interval.
C18_SetFpsTouchesRateOnly ==
    [][/\ last'.op = "setFPS" =>
            /\ animator' = [animator EXCEPT
                               !.fps = animator'.fps,
                               !.frameInterval = animator'.frameInterval]
            /\ UNCHANGED <<raf, canvas, image, now>>
       /\ (last.op = "setFPS" /\ last'.op = "tick" /\ animator.isPlaying) =>
            (animator'.currentFrame # animator.currentFrame
               <=> now' - animator.lastFrameTime
                     >= Ms(1000) \div ClampedFps(last.arg[1]))]_vars

\* setFPS(0) has slowed a running animation to 1 fps between two advances
C18_Witness ==
    /\ last.op = "setFPS"
    /\ last.arg = <<0>>
    /\ animator.fps = 1
    /\ animator.isPlaying
    /\ animator.currentFrame > 0
    /\ animator.lastFrameTime > 0
    /\ animator.animationId \in raf

\* the measurement the claims give for a tick at time t: the counter goes up
\* by one; when t - fpsLastTime >= 1000 ms actualFps is the rounded
\* counter * 1000 / (t - fpsLastTime), the counter restarts at 0 and the
\* window at t; otherwise actualFps and the window stay
MeasuredAsClaimed(a, b, t) ==
    LET window == t - a.fpsLastTime
        counted == a.frameCount + 1
    IN IF window >= Ms(1000)
       THEN /\ b.actualFps = (2 * counted * Ms(1000) + window) \div (2 * window)
            /\ b.frameCount = 0
            /\ b.fpsLastTime = t
       ELSE /\ b.actualFps = a.actualFps
            /\ b.frameCount = counted
            /\ b.fpsLastTime = a.fpsLastTime

\* C19: every repaint callback run while playing counts one tick, whether it
\* advances the frame or not; the first one at which 1000 ms of the window
\* have passed stores the rounded rate, restarts the counter and the window;
\* every other one leaves actualFps.
C19_EveryTickMeasured ==
    [][(last'.op = "tick" /\ animator.isPlaying)
       => MeasuredAsClaimed(animator, animator', now')]_vars

\* the same, for the ticks that return without an exception
C19_EveryTickMeasuredUnlessThrown ==
    [][(last'.op = "tick" /\ last'.ret # "throw" /\ animator.isPlaying)
       => MeasuredAsClaimed(animator, animator', now')]_vars

\* C20: whatever the interleaving of play, pause, nextFrame, prevFrame,
\* setFPS and fired repaint callbacks, at most one callback is pending, and
\* none while paused.
C20_OneLoopAtMost ==
    /\ Cardinality(raf) <= 1
    /\ ~animator.isPlaying => raf = {}

\* play() has restarted, after a pause, a loop that had already measured a
\* window: one callback is pending
C20_Witness ==
    /\ last.op = "play"
    /\ animator.isPlaying
    /\ animator.actualFps > 0
    /\ animator.lastFrameTime = now
    /\ raf = {animator.animationId}

\* the promise of call k is resolved or rejected
Settled(k) == promises[k] \in {"resolved", "rejected"}

\* C21: the promise of every loadFromFile call is eventually settled, and
\* settled once: a settled promise keeps its outcome.
C21_EveryUploadSettles ==
    /\ \A k \in 1..MaxUploads : (promises[k] = "pending") ~> Settled(k)
    /\ [][\A k \in 1..MaxUploads :
            Settled(k) => promises'[k] = promises[k]]_vars

\* the part that holds: a settled promise keeps its outcome, a promise is
\* resolved only by the load of the request its call started, and a call
\* with a file that is no image is rejected at once
C21_SettlesAtMostOnce ==
    [][\A k \in 1..MaxUploads :
         /\ Settled(k) => promises'[k] = promises[k]
         /\ (promises[k] = "pending" /\ promises'[k] = "resolved") =>
                /\ last'.op = "imageLoad"
                /\ image.handler = k
                /\ image'.state = "available"
         /\ (promises[k] = "none" /\ promises'[k] # "none") =>
                /\ last'.op = "loadFromFile"
                /\ promises'[k] \in {"pending", "rejected"}]_vars

\* the second upload was resolved while the promise of the first, whose
\* request it replaced, is still pending with nothing left to settle it
C21_Witness ==
    /\ promises[1] = "pending"
    /\ promises[2] = "resolved"
    /\ readers = {}
    /\ ~image.loading

\* the layout fields a manual grid supplies
Layout(a) ==
    <<a.framesPerRow, a.framesPerCol, a.frameWidth, a.frameHeight,
      a.offsetX, a.offsetY, a.spacingX, a.spacingY>>

\* C22: after a successful setManualGrid the columns, rows, frame size,
\* offsets and spacings stay as supplied until the next setManualGrid or
\* triggerAutoDetect; the completion of the initial load or of an upload does
\* not alter them.
C22_ManualGridKept ==
    [][(/\ ~animator.autoDetect
        /\ last'.op \notin {"setManualGrid", "triggerAutoDetect"})
       => Layout(animator') = Layout(animator)]_vars

\* the same, but for the completion of the initial load
C22_ManualGridKeptByUploads ==
    [][(/\ ~animator.autoDetect
        /\ last'.op \notin {"setManualGrid", "triggerAutoDetect"}
        /\ ~(last'.op = "imageLoad" /\ image.handler = 0))
       => Layout(animator') = Layout(animator)]_vars

\* the initial load has completed after a manual grid of one column and has
\* replaced its column count
C22_Witness ==
    /\ last.op = "imageLoad"
    /\ ~animator.autoDetect
    /\ image.handler = 0
    /\ animator.frameWidth = 2
    /\ animator.framesPerRow > 1

\* C23: whenever isPlaying is true (between handlers) a repaint callback is
\* pending: the state 'playing with no callback' is unreachable, also after a
\* render on a broken or a still loading sheet.
C23_PlayingHasCallback ==
    animator.isPlaying => raf # {}

\* the part that holds: a playing animator has its callback pending as long
\* as the sheet is not broken
C23_PlayingHasCallbackUnlessBroken ==
    (animator.isPlaying /\ image.state # "broken") =>
        /\ raf = {animator.animationId}
        /\ last.ret # "throw"

\* play() has returned on an animator that is playing with no callback
\* pending, and has not started one
C23_Witness ==
    /\ last.op = "play"
    /\ animator.isPlaying
    /\ raf = {}
    /\ image.state = "broken"

====
